---- MODULE Spec2Model ----
(***************************************************************************)
(* Label generators of lasterArtboardGenerator: the corner engine          *)
(* (corner_label_generator.py), the grid engine                            *)
(* (corner_label_generator_grid2.py) and the plaque engine                 *)
(* (plaqueGenerator.py), with the export pipeline of their writeSvg /      *)
(* write_svg_plaque callers.                                               *)
(*                                                                         *)
(* Numbers.  The program computes in floating point; the model computes    *)
(* the same expressions exactly, in fixed point:                           *)
(*   - corner and grid lengths (mm) are integers in micrometres            *)
(*     (139.7 mm is 139700);                                               *)
(*   - inset fractions are integers in hundredths (0.12 is 12);            *)
(*   - dy offsets are integers in tenths (1.2 is 12, 1.2*F is 12*F);       *)
(*   - plaque lengths (user units) are integers in 1/800 of a unit         *)
(*     (676 is 540800; 0.55*F is 55*8*F, 0.1*F is 10*8*F), the coarsest    *)
(*     unit in which 1.05*w, (1.05*w - w)/2, 0.20*h, h/2 and               *)
(*     0.85*(h/2 +- k*F) are whole for every whole font size F.            *)
(* A text is a sequence of one-character strings; Optional[str] is a       *)
(* record [present, text].                                                 *)
(***************************************************************************)
EXTENDS Integers, Sequences, FiniteSets, TLC

(* ----------------------------- bounds ---------------------------------- *)

\* largest number of rows / columns of a grid call
MaxRows == 2
MaxColumns == 2

(* ----------------------------- texts ----------------------------------- *)

None == [present |-> FALSE, text |-> <<>>]
Some(s) == [present |-> TRUE, text |-> s]

\* Python truthiness of an Optional[str]: None and "" are falsy
Truthy(opt) == opt.present /\ opt.text # <<>>

\* `label_line2 or ""`
OrEmpty(opt) == IF Truthy(opt) THEN opt.text ELSE <<>>

Empty == <<>>
Alabama == <<"A","l","a","b","a","m","a">>
BrokenMountain == <<"B","r","o","k","e","n"," ","M","o","u","n","t","a","i","n">>
SistersKansas == <<"S","i","s","t","e","r","s",","," ","K","a","n","s","a","s">>
GoopyPijenRqual == <<"G","o","o","p","y"," ","P","i","j","e","n"," ","R","q","u","a","l">>

Max(a, b) == IF a >= b THEN a ELSE b
Min(a, b) == IF a <= b THEN a ELSE b

(* ------------------------- drawable primitives ------------------------- *)

Rect(x, y, w, h, fill, stroke) ==
    [kind |-> "Rect", x |-> x, y |-> y, width |-> w, height |-> h,
     fill |-> fill, stroke |-> stroke]

TSpan(x, dy, text) == [kind |-> "TSpan", x |-> x, dy |-> dy, text |-> text]

\* a None entry of an elements list
NoneElement == [kind |-> "None"]

\* svg.Text: `text` is its own text (Optional), `elements` its sub-runs
Text(x, y, fill, font_size, text_anchor, dominant_baseline, text, elements) ==
    [kind |-> "Text", x |-> x, y |-> y, fill |-> fill, font_size |-> font_size,
     text_anchor |-> text_anchor, dominant_baseline |-> dominant_baseline,
     text |-> text, elements |-> elements]

SVG(w, h, elements) == [kind |-> "SVG", width |-> w, height |-> h, elements |-> elements]

\* a raised exception, propagating out of the function that raised it
Raise(exc) == [kind |-> "raise", exc |-> exc]

NoDoc == [kind |-> "none"]

(* ------------------- corner engine: create_svg_corners ----------------- *)

\* create_svg_corners without the two-line font reduction of lines 43 and 59
create_svg_corners_noshrink(width, height, x, y, fontSize, text_anchor, dominant_baseline, lower_corner, label_line1, label_line2) ==
    IF lower_corner /\ Truthy(label_line2)
    THEN SVG(width, height,
             << Rect(0, 0, width, height, "white", "red"),
                Text(x, y, "blue", fontSize, text_anchor, dominant_baseline, None,
                     << TSpan(x, 12, label_line2.text),
                        TSpan(x, -12 * fontSize, label_line1) >>) >>)
    ELSE SVG(width, height,
             << Rect(0, 0, width, height, "white", "red"),
                Text(x, y, "blue", fontSize, text_anchor, dominant_baseline, None,
                     << TSpan(x, 12, label_line1),
                        IF Truthy(label_line2) THEN TSpan(x, 12 * fontSize, label_line2.text)
                                               ELSE NoneElement >>) >>)

create_svg_corners(width, height, x, y, fontSize, text_anchor, dominant_baseline, lower_corner, label_line1, label_line2) ==
    IF lower_corner /\ Truthy(label_line2)
    THEN LET fontSize2 == fontSize - 2
         IN  SVG(width, height,
                 << Rect(0, 0, width, height, "white", "red"),
                    Text(x, y, "blue", fontSize2, text_anchor, dominant_baseline, None,
                         << TSpan(x, 12, label_line2.text),
                            TSpan(x, -12 * fontSize2, label_line1) >>) >>)
    ELSE LET fontSize2 == IF Truthy(label_line2) THEN fontSize - 2 ELSE fontSize
         IN  SVG(width, height,
                 << Rect(0, 0, width, height, "white", "red"),
                    Text(x, y, "blue", fontSize2, text_anchor, dominant_baseline, None,
                         << TSpan(x, 12, label_line1),
                            IF Truthy(label_line2) THEN TSpan(x, 12 * fontSize2, label_line2.text)
                                                   ELSE NoneElement >>) >>)

(* ----------------------- corner engine: writeSvg ----------------------- *)

\* the suffixes with left and right exchanged
names_mirrored == << "_topRight", "_topLeft", "_bottomRight", "_bottomLeft" >>

\* names, line 95: the suffix of variant i (0..3)
names == << "_topLeft", "_topRight", "_bottomLeft", "_bottomRight" >>

\* lines 103-104
x_edge_distance(a) == (Min(a.width, a.height) * a.x_percent_from_edge) \div 100
y_edge_distance(a) == (Min(a.width, a.height) * a.y_percent_from_edge) \div 100

\* the arguments of the create_svg_corners call of variant i with x and y exchanged
corner_call_swapped(i, a) ==
    CASE i = 0 -> [x |-> y_edge_distance(a), y |-> x_edge_distance(a),
                   text_anchor |-> "start", dominant_baseline |-> "hanging", lower_corner |-> FALSE]
      [] i = 1 -> [x |-> a.width - y_edge_distance(a), y |-> x_edge_distance(a),
                   text_anchor |-> "end", dominant_baseline |-> "hanging", lower_corner |-> FALSE]
      [] i = 2 -> [x |-> y_edge_distance(a), y |-> a.height - x_edge_distance(a),
                   text_anchor |-> "start", dominant_baseline |-> "central", lower_corner |-> TRUE]
      [] OTHER -> [x |-> a.width - y_edge_distance(a), y |-> a.height - x_edge_distance(a),
                   text_anchor |-> "end", dominant_baseline |-> "central", lower_corner |-> TRUE]

\* lines 111-122: the arguments of the create_svg_corners call of variant i
corner_call(i, a) ==
    CASE i = 0 -> [x |-> x_edge_distance(a), y |-> y_edge_distance(a),
                   text_anchor |-> "start", dominant_baseline |-> "hanging", lower_corner |-> FALSE]
      [] i = 1 -> [x |-> a.width - x_edge_distance(a), y |-> y_edge_distance(a),
                   text_anchor |-> "end", dominant_baseline |-> "hanging", lower_corner |-> FALSE]
      [] i = 2 -> [x |-> x_edge_distance(a), y |-> a.height - y_edge_distance(a),
                   text_anchor |-> "start", dominant_baseline |-> "central", lower_corner |-> TRUE]
      [] OTHER -> [x |-> a.width - x_edge_distance(a), y |-> a.height - y_edge_distance(a),
                   text_anchor |-> "end", dominant_baseline |-> "central", lower_corner |-> TRUE]

\* a writeSvg that rejects invalid parameters before laying out
corner_svg_content_validating(i, a) ==
    IF \/ a.width <= 0 \/ a.height <= 0 \/ a.fontSize <= 0 \/ a.label_line1 = <<>>
       \/ a.x_percent_from_edge <= 0 \/ a.x_percent_from_edge >= 100
       \/ a.y_percent_from_edge <= 0 \/ a.y_percent_from_edge >= 100
    THEN Raise("ValueError")
    ELSE LET c == corner_call(i, a)
         IN  create_svg_corners(a.width, a.height, c.x, c.y, a.fontSize, c.text_anchor,
                                c.dominant_baseline, c.lower_corner, a.label_line1, a.label_line2)

\* lines 111-122: svg_content of variant i
corner_svg_content(i, a) ==
    LET c == corner_call(i, a)
    IN  create_svg_corners(a.width, a.height, c.x, c.y, a.fontSize, c.text_anchor,
                           c.dominant_baseline, c.lower_corner, a.label_line1, a.label_line2)

(* ------------------ grid engine: create_svg_corners_grid --------------- *)

\* line 29
colorArray == << "#0000FF", "#0096FF", "#00FFFF" >>

\* lines 46-58: the text element of one cell
grid_text_element(label_x, label_y, fill, fontSize, text_anchor, dominant_baseline, lower_corner, label_line1, label_line2) ==
    IF lower_corner /\ Truthy(label_line2)
    THEN Text(label_x, label_y, fill, fontSize, text_anchor, dominant_baseline, None,
              << TSpan(label_x, 12, label_line2.text),
                 TSpan(label_x, -12 * fontSize, label_line1) >>)
    ELSE Text(label_x, label_y, fill, fontSize, text_anchor, dominant_baseline, None,
              << TSpan(label_x, 12, label_line1),
                 IF Truthy(label_line2) THEN TSpan(label_x, 12 * fontSize, label_line2.text)
                                        ELSE NoneElement >>)

\* lines 38-60: the two nested loops, column outer and row inner, from the
\* position (column, row) with the running colorIndex and the elements so far;
\* colorArray[colorIndex] raises IndexError once colorIndex leaves the palette
RECURSIVE grid_loop(_, _, _, _, _)
grid_loop(g, column, row, colorIndex, elements) ==
    IF column >= g.columns
    THEN SVG(g.width * g.columns, g.height * g.rows, elements)
    ELSE IF row >= g.rows
    THEN grid_loop(g, column + 1, 0, colorIndex, elements)
    ELSE IF colorIndex >= Len(colorArray)
    THEN Raise("IndexError")
    ELSE LET label_x == g.x + g.width * column
             label_y == g.y + g.height * row
             text_element == grid_text_element(label_x, label_y, colorArray[colorIndex + 1],
                                 g.fontSize, g.text_anchor, g.dominant_baseline,
                                 g.lower_corner, g.label_line1, g.label_line2)
         IN  grid_loop(g, column, row + 1, colorIndex + 1, Append(elements, text_element))

\* the value colorIndex had when the latest create_svg_corners_grid invocation
\* ended (0 before the first)
VARIABLE colorIndexAtEnd

\* create_svg_corners_grid with a counter that is not set back to 0: it goes on
\* from where the invocation before left it
create_svg_corners_grid_running(rows, columns, width, height, x, y, fontSize, text_anchor, dominant_baseline, lower_corner, label_line1, label_line2) ==
    LET g == [rows |-> rows, columns |-> columns, width |-> width, height |-> height,
              x |-> x, y |-> y, fontSize |-> fontSize, text_anchor |-> text_anchor,
              dominant_baseline |-> dominant_baseline, lower_corner |-> lower_corner,
              label_line1 |-> label_line1, label_line2 |-> label_line2]
    IN  grid_loop(g, 0, 0, colorIndexAtEnd,
                  << Rect(0, 0, width * columns, height * rows, "white", "red") >>)

\* lines 29-67
create_svg_corners_grid(rows, columns, width, height, x, y, fontSize, text_anchor, dominant_baseline, lower_corner, label_line1, label_line2) ==
    LET board_width == width * columns
        board_height == height * rows
        g == [rows |-> rows, columns |-> columns, width |-> width, height |-> height,
              x |-> x, y |-> y, fontSize |-> fontSize, text_anchor |-> text_anchor,
              dominant_baseline |-> dominant_baseline, lower_corner |-> lower_corner,
              label_line1 |-> label_line1, label_line2 |-> label_line2]
    IN  grid_loop(g, 0, 0, 0, << Rect(0, 0, board_width, board_height, "white", "red") >>)

\* colorIndex at the end of an invocation that returned r: one past the index
\* of the last colour used (line 59), or the index that left the palette
ColorIndexAfter(r) ==
    IF r.kind = "raise" THEN Len(colorArray)
    ELSE IF Len(r.elements) < 2 THEN 0
    ELSE CHOOSE k \in 1..Len(colorArray) : colorArray[k] = r.elements[Len(r.elements)].fill

(* ------------------------ grid engine: writeSvg ------------------------ *)

\* line 91
grid_names == << "_topLeftGrid", "_topRightGrid", "_bottomLeftGrid", "_bottomRightGrid" >>

\* lines 96-97
x_start(a) == (Min(a.width, a.height) * a.x_percent_from_edge) \div 100
y_start(a) == (Min(a.width, a.height) * a.y_percent_from_edge) \div 100

\* lines 105-116: the arguments of the create_svg_corners_grid call of variant i
grid_call(i, a) ==
    CASE i = 0 -> [x |-> x_start(a), y |-> y_start(a),
                   text_anchor |-> "start", dominant_baseline |-> "text-top", lower_corner |-> FALSE]
      [] i = 1 -> [x |-> a.width - x_start(a), y |-> y_start(a),
                   text_anchor |-> "end", dominant_baseline |-> "text-top", lower_corner |-> FALSE]
      [] i = 2 -> [x |-> x_start(a), y |-> a.height - y_start(a),
                   text_anchor |-> "start", dominant_baseline |-> "text-bottom", lower_corner |-> TRUE]
      [] OTHER -> [x |-> a.width - x_start(a), y |-> a.height - y_start(a),
                   text_anchor |-> "end", dominant_baseline |-> "text-bottom", lower_corner |-> TRUE]

\* lines 105-116: svg_content of variant i
grid_svg_content(i, a) ==
    LET c == grid_call(i, a)
    IN  create_svg_corners_grid(a.rows, a.columns, a.width, a.height, c.x, c.y, a.fontSize,
                                c.text_anchor, c.dominant_baseline, c.lower_corner,
                                a.label_line1, a.label_line2)

(* ----------------------------- plaque engine --------------------------- *)

\* has_descenders blind to every letter (each line takes the no-descender offset)
has_descenders_never(label_line) == FALSE

\* has_descenders that folds the case of the letters before looking for them
has_descenders_anycase(label_line) ==
    \E k \in 1..Len(label_line) :
        label_line[k] \in {"g", "j", "p", "q", "y", "G", "J", "P", "Q", "Y"}

\* lines 8-10
has_descenders(label_line) ==
    \E k \in 1..Len(label_line) : label_line[k] \in {"g", "j", "p", "q", "y"}

\* calculate_plaque_dimensions with the padding added once instead of on both sides
calculate_plaque_dimensions_onepad(fontSize, label_line1, label_line2) ==
    LET num_lines == IF ~label_line2.present THEN 1 ELSE 2
        max_label_length == Max(Len(label_line1), Len(OrEmpty(label_line2)))
        text_width == max_label_length * fontSize * (55 * 8)
        text_height == fontSize * num_lines * (100 * 8)
        padding_x == fontSize * (10 * 8)
        padding_y == fontSize * (10 * 8)
    IN  [plaque_width |-> text_width + padding_x, plaque_height |-> text_height + padding_y]

\* lines 12-32; num_lines tests `label_line2 is None`, the width `label_line2 or ""`
calculate_plaque_dimensions(fontSize, label_line1, label_line2) ==
    LET num_lines == IF ~label_line2.present THEN 1 ELSE 2
        max_label_length == Max(Len(label_line1), Len(OrEmpty(label_line2)))
        text_width == max_label_length * fontSize * (55 * 8)
        text_height == fontSize * num_lines * (100 * 8)
        padding_x == fontSize * (10 * 8)
        padding_y == fontSize * (10 * 8)
    IN  [plaque_width |-> text_width + 2 * padding_x,
         plaque_height |-> text_height + 2 * padding_y]

\* svg.Path with d = "M sx sy A r r 0 large sweep ex ey"
ArcPath(sx, sy, r, large, sweep, ex, ey) ==
    [kind |-> "Path", sx |-> sx, sy |-> sy, rx |-> r, ry |-> r, rotation |-> 0,
     large |-> large, sweep |-> sweep, ex |-> ex, ey |-> ey, fill |-> "none", stroke |-> "red"]

\* lines 52-57 with the plaque left at the artboard's origin (the rectangle of line 86)
plaque_frame_origin(plaque_width, plaque_height) ==
    [artboard_width |-> (plaque_width * 105) \div 100,
     artboard_height |-> (plaque_height * 105) \div 100,
     plaque_x |-> 0,
     plaque_y |-> 0]

\* lines 52-57: the artboard and the plaque's origin in it
plaque_frame(plaque_width, plaque_height) ==
    LET artboard_width == (plaque_width * 105) \div 100
        artboard_height == (plaque_height * 105) \div 100
    IN  [artboard_width |-> artboard_width,
         artboard_height |-> artboard_height,
         plaque_x |-> (artboard_width - plaque_width) \div 2,
         plaque_y |-> (artboard_height - plaque_height) \div 2]

\* lines 35-127
create_svg_plaque(fontSize, label_line1, label_line2) ==
    LET dims == calculate_plaque_dimensions(fontSize, label_line1, label_line2)
        plaque_width == dims.plaque_width
        plaque_height == dims.plaque_height
        frame == plaque_frame(plaque_width, plaque_height)
        plaque_x == frame.plaque_x
        plaque_y == frame.plaque_y
        corner_radius == (plaque_height * 20) \div 100
        arc_top_left == ArcPath(plaque_x, plaque_y + corner_radius, corner_radius, 0, 0,
                                plaque_x + corner_radius, plaque_y)
        arc_top_right == ArcPath(plaque_x + plaque_width - corner_radius, plaque_y, corner_radius, 0, 0,
                                 plaque_x + plaque_width, plaque_y + corner_radius)
        arc_bottom_left == ArcPath(plaque_x + corner_radius, plaque_y + plaque_height, corner_radius, 0, 0,
                                   plaque_x, plaque_y + plaque_height - corner_radius)
        arc_bottom_right == ArcPath(plaque_x + plaque_width, plaque_y + plaque_height - corner_radius,
                                    corner_radius, 0, 0,
                                    plaque_x + plaque_width - corner_radius, plaque_y + plaque_height)
        rectangle == Rect(plaque_x, plaque_y, plaque_width, plaque_height, "none", "red")
        text_x == plaque_x + (plaque_width \div 2)
        text_element ==
            IF Truthy(label_line2)
            THEN LET y_offset == IF ~has_descenders(label_line2.text) THEN 45 * 8 ELSE 50 * 8
                 IN  Text(text_x,
                          plaque_y + (85 * ((plaque_height \div 2) - (y_offset * fontSize))) \div 100,
                          "blue", fontSize, "middle", "middle", None,
                          << TSpan(text_x, 12, label_line1),
                             TSpan(text_x, 10 * fontSize, label_line2.text) >>)
            ELSE LET y_offset == IF has_descenders(label_line1) THEN 5 * 8 ELSE 10 * 8
                 IN  Text(text_x,
                          plaque_y + (85 * ((plaque_height \div 2) + (y_offset * fontSize))) \div 100,
                          "blue", fontSize, "middle", "middle", Some(label_line1), << >>)
    IN  SVG(frame.artboard_width, frame.artboard_height,
            << rectangle, arc_top_left, arc_top_right, arc_bottom_left, arc_bottom_right,
               text_element >>)

(* ------------------------------- inputs -------------------------------- *)

\* input_mapping, lines 140-147: the six presets (width, height, x and y fraction, font size)
input_mapping ==
    { [width |-> 139700, height |-> 203200, x_percent_from_edge |-> 12, y_percent_from_edge |-> 12, fontSize |-> 28],
      [width |-> 203200, height |-> 139700, x_percent_from_edge |-> 12, y_percent_from_edge |-> 12, fontSize |-> 28],
      [width |-> 203200, height |-> 279400, x_percent_from_edge |-> 12, y_percent_from_edge |-> 12, fontSize |-> 34],
      [width |-> 279400, height |-> 203200, x_percent_from_edge |-> 12, y_percent_from_edge |-> 12, fontSize |-> 34],
      [width |-> 279400, height |-> 381000, x_percent_from_edge |-> 10, y_percent_from_edge |-> 10, fontSize |-> 40],
      [width |-> 381000, height |-> 279400, x_percent_from_edge |-> 10, y_percent_from_edge |-> 10, fontSize |-> 40] }

\* lines 157-164: the custom choice takes any numbers, valid or not
custom_values ==
    [width : {0, 139700}, height : {-203200, 203200},
     x_percent_from_edge : {0, 12}, y_percent_from_edge : {10, 150}, fontSize : {0, 28}]

\* lines 149-169
get_values_from_input == input_mapping \cup custom_values

\* the labels a caller passes: line1 is a str, line2 an Optional[str]
Line1s == {Empty, Alabama, BrokenMountain, GoopyPijenRqual}
Line2s == {None, Some(Empty), Some(SistersKansas), Some(GoopyPijenRqual)}

\* the font sizes of the plaque calls of plaqueGenerator.py lines 170-175, and 0
PlaqueFontSizes == {0, 24, 80}

\* label lines that has_descenders tells apart: each letter it looks for, the
\* same letters in upper case, and a word of upper-case letters only
DescenderLines ==
    { << c >> : c \in {"g", "j", "p", "q", "y", "G", "J", "P", "Q", "Y"} }
        \cup { << "G", "Y", "P" >> }

\* the labels a caller passes to write_svg_plaque
PlaqueLine1s == Line1s \cup DescenderLines
PlaqueLine2s == Line2s \cup { Some(<< "y" >>), Some(<< "Y" >>) }

Procs == {1, 2}

CallRecord(engine, file_name, rows, columns, v, fontSize, label_line1, label_line2) ==
    [engine |-> engine, file_name |-> file_name, rows |-> rows, columns |-> columns,
     width |-> v.width, height |-> v.height,
     x_percent_from_edge |-> v.x_percent_from_edge,
     y_percent_from_edge |-> v.y_percent_from_edge,
     fontSize |-> fontSize, label_line1 |-> label_line1, label_line2 |-> label_line2]

NoValues == [width |-> 0, height |-> 0, x_percent_from_edge |-> 0, y_percent_from_edge |-> 0]

CornerCalls ==
    { CallRecord("corner", "A", 1, 1, v, v.fontSize, l1, l2) :
        v \in get_values_from_input, l1 \in Line1s, l2 \in Line2s }

GridCalls ==
    UNION { { CallRecord("grid", "A", r, c, v, v.fontSize, l1, l2) :
                v \in get_values_from_input, l1 \in Line1s, l2 \in Line2s } :
            r \in 1..MaxRows, c \in 1..MaxColumns }

PlaqueCalls ==
    { CallRecord("plaque", "A", 1, 1, NoValues, f, l1, l2) :
        f \in PlaqueFontSizes, l1 \in PlaqueLine1s, l2 \in PlaqueLine2s }

Calls == CornerCalls \cup GridCalls \cup PlaqueCalls

\* two writeSvg calls on one output folder, under their own or the same file name
RaceCalls ==
    { CallRecord(e, n, 1, 1, v, v.fontSize, Alabama, None) :
        e \in {"corner", "grid"}, n \in {"A", "B"},
        v \in {w \in input_mapping : w.width = 139700} }

(* -------------------------------- state -------------------------------- *)

VARIABLES
    args,         \* args[p]: the parameters of the call process p runs
    pc,           \* pc[p]: where p is in its call
    i,            \* i[p]: the loop variable of writeSvg, the variant in work
    call,         \* call[p]: the arguments of the last layout call of p
    svg_content,  \* svg_content[p]: the document the last layout call returned
    exc,          \* exc[p]: the exception that ended p's call
    folder,       \* whether output_folder exists
    files,        \* the files in output_folder: records [path, content]
    invocations   \* the layout invocations a caller made one after the other:
                  \* records [input, result]

vars == << args, pc, i, call, svg_content, exc, folder, files, colorIndexAtEnd, invocations >>

NoCall == [x |-> 0, y |-> 0, text_anchor |-> "", dominant_baseline |-> "", lower_corner |-> FALSE]
NoExc == [type |-> "", at |-> "", variant |-> 0]

\* the first statement of the function the call enters
Entry(a) == IF a.engine = "plaque" THEN "plaque_write" ELSE "exists"

\* os.path.join(output_folder, file_name + suffix + ext)
Path(file_name, suffix, ext) == << file_name, suffix, ext >>

\* a file (over)written with content
WriteTo(fs, path, content) ==
    { f \in fs : f.path # path } \cup { [path |-> path, content |-> content] }

Exists(fs, path) == \E f \in fs : f.path = path

\* an exception leaves the function: nothing after the raising statement runs
Raised(p, type, at) ==
    /\ pc' = [pc EXCEPT ![p] = "raised"]
    /\ exc' = [exc EXCEPT ![p] = [type |-> type, at |-> at, variant |-> i[p]]]

TypeOK ==
    /\ pc \in [Procs -> {"off", "exists", "makedirs", "layout", "write", "svg2pdf", "inkscape",
                         "plaque_write", "plaque_png", "done", "raised", "caller"}]
    /\ i \in [Procs -> 0..4]
    /\ folder \in BOOLEAN

Init ==
    /\ \E a \in Calls : args = [p \in Procs |-> a]
    /\ pc = [p \in Procs |-> IF p = 1 THEN Entry(args[p]) ELSE "off"]
    /\ i = [p \in Procs |-> 0]
    /\ call = [p \in Procs |-> NoCall]
    /\ svg_content = [p \in Procs |-> NoDoc]
    /\ exc = [p \in Procs |-> NoExc]
    /\ folder \in BOOLEAN
    /\ files = {}
    /\ colorIndexAtEnd = 0
    /\ invocations = << >>

InitRace ==
    /\ args \in [Procs -> RaceCalls]
    /\ pc = [p \in Procs |-> "exists"]
    /\ i = [p \in Procs |-> 0]
    /\ call = [p \in Procs |-> NoCall]
    /\ svg_content = [p \in Procs |-> NoDoc]
    /\ exc = [p \in Procs |-> NoExc]
    /\ folder \in BOOLEAN
    /\ files = {}
    /\ colorIndexAtEnd = 0
    /\ invocations = << >>

(* ------------------- writeSvg (corner and grid) steps ------------------ *)

\* `if not os.path.exists(output_folder):`
CheckFolder(p) ==
    /\ pc[p] = "exists"
    /\ pc' = [pc EXCEPT ![p] = IF folder THEN "layout" ELSE "makedirs"]
    /\ UNCHANGED << colorIndexAtEnd, invocations, args, i, call, svg_content, exc, folder, files >>

\* `os.makedirs(output_folder)`: FileExistsError when the folder is there
MakeDirs(p) ==
    /\ pc[p] = "makedirs"
    /\ IF folder
       THEN /\ Raised(p, "FileExistsError", "makedirs")
            /\ UNCHANGED folder
       ELSE /\ folder' = TRUE
            /\ pc' = [pc EXCEPT ![p] = "layout"]
            /\ UNCHANGED exc
    /\ UNCHANGED << colorIndexAtEnd, invocations, args, i, call, svg_content, files >>

\* the layout call of variant i[p] returned r, or raised
Laid(p, c, r) ==
    IF r.kind = "raise"
    THEN /\ Raised(p, r.exc, "layout")
         /\ UNCHANGED << call, svg_content >>
    ELSE /\ call' = [call EXCEPT ![p] = c]
         /\ svg_content' = [svg_content EXCEPT ![p] = r]
         /\ pc' = [pc EXCEPT ![p] = "write"]
         /\ UNCHANGED exc

CornerLayout(p) ==
    /\ pc[p] = "layout"
    /\ args[p].engine = "corner"
    /\ Laid(p, corner_call(i[p], args[p]), corner_svg_content(i[p], args[p]))
    /\ UNCHANGED << colorIndexAtEnd, invocations, args, i, folder, files >>

GridLayout(p) ==
    /\ pc[p] = "layout"
    /\ args[p].engine = "grid"
    /\ Laid(p, grid_call(i[p], args[p]), grid_svg_content(i[p], args[p]))
    /\ colorIndexAtEnd' = ColorIndexAfter(grid_svg_content(i[p], args[p]))
    /\ UNCHANGED << invocations, args, i, folder, files >>

\* svg_file_path of the variant in work
SvgPath(p) ==
    Path(args[p].file_name,
         IF args[p].engine = "corner" THEN names[i[p] + 1] ELSE grid_names[i[p] + 1], "svg")

\* pdf_file_path = os.path.splitext(svg_file_path)[0] + ".pdf"
PdfPath(p) == << SvgPath(p)[1], SvgPath(p)[2], "pdf" >>

\* the step of WriteFile without the file reaching the disk
WriteFile_unflushed(p) ==
    /\ pc[p] = "write"
    /\ pc' = [pc EXCEPT ![p] = IF args[p].engine = "corner" THEN "svg2pdf" ELSE "inkscape"]
    /\ UNCHANGED << colorIndexAtEnd, invocations, args, i, call, svg_content, exc, folder, files >>

\* `with open(svg_file_path, 'w') as svg_file: svg_file.write(str(svg_content))`
WriteFile(p) ==
    /\ pc[p] = "write"
    /\ files' = WriteTo(files, SvgPath(p), svg_content[p])
    /\ pc' = [pc EXCEPT ![p] = IF args[p].engine = "corner" THEN "svg2pdf" ELSE "inkscape"]
    /\ UNCHANGED << colorIndexAtEnd, invocations, args, i, call, svg_content, exc, folder >>

\* the end of one pass of `for i in range(4)`
NextVariant(p) ==
    /\ i' = [i EXCEPT ![p] = i[p] + 1]
    /\ pc' = [pc EXCEPT ![p] = IF i[p] + 1 = 4 THEN "done" ELSE "layout"]

\* `cairosvg.svg2pdf(url=svg_file_path, write_to=pdf_file_path)`: converts, or raises
Svg2Pdf(p) ==
    /\ pc[p] = "svg2pdf"
    /\ \/ /\ Exists(files, SvgPath(p))
          /\ files' = WriteTo(files, PdfPath(p), [kind |-> "pdf", outlined |-> FALSE])
          /\ pc' = [pc EXCEPT ![p] = "inkscape"]
          /\ UNCHANGED exc
       \/ /\ Raised(p, "ConverterError", "svg2pdf")
          /\ UNCHANGED files
    /\ UNCHANGED << colorIndexAtEnd, invocations, args, i, call, svg_content, folder >>

\* `subprocess.run(["inkscape", pdf_file_path, "--export-pdf=" + pdf_file_path,
\* "--export-text-to-path"])`: inkscape rewrites the PDF, or exits with an error
\* that run() does not look at (no check=True), or cannot be started, which raises
CornerInkscape(p) ==
    /\ pc[p] = "inkscape"
    /\ args[p].engine = "corner"
    /\ \/ /\ Exists(files, PdfPath(p))
          /\ files' = WriteTo(files, PdfPath(p), [kind |-> "pdf", outlined |-> TRUE])
          /\ NextVariant(p)
          /\ UNCHANGED exc
       \/ /\ UNCHANGED files
          /\ NextVariant(p)
          /\ UNCHANGED exc
       \/ /\ Raised(p, "FileNotFoundError", "inkscape")
          /\ UNCHANGED << files, i >>
    /\ UNCHANGED << colorIndexAtEnd, invocations, args, call, svg_content, folder >>

\* `subprocess.run(["inkscape", svg_file_path, "--export-pdf=" + pdf_file_path,
\* "--export-text-to-path"])`
GridInkscape(p) ==
    /\ pc[p] = "inkscape"
    /\ args[p].engine = "grid"
    /\ \/ /\ Exists(files, SvgPath(p))
          /\ files' = WriteTo(files, PdfPath(p), [kind |-> "pdf", outlined |-> TRUE])
          /\ NextVariant(p)
          /\ UNCHANGED exc
       \/ /\ UNCHANGED files
          /\ NextVariant(p)
          /\ UNCHANGED exc
       \/ /\ Raised(p, "FileNotFoundError", "inkscape")
          /\ UNCHANGED << files, i >>
    /\ UNCHANGED << colorIndexAtEnd, invocations, args, call, svg_content, folder >>

(* ------------------------ write_svg_plaque steps ----------------------- *)

PlaquePath(p, ext) == Path(args[p].file_name, "_plaque", ext)

\* lines 145-148: open() fails when output_folder is missing (nothing creates it)
PlaqueWrite(p) ==
    /\ pc[p] = "plaque_write"
    /\ IF ~folder
       THEN /\ Raised(p, "FileNotFoundError", "open")
            /\ UNCHANGED << svg_content, files >>
       ELSE LET r == create_svg_plaque(args[p].fontSize, args[p].label_line1, args[p].label_line2)
            IN  IF r.kind = "raise"
                THEN /\ Raised(p, r.exc, "layout")
                     /\ UNCHANGED << svg_content, files >>
                ELSE /\ svg_content' = [svg_content EXCEPT ![p] = r]
                     /\ files' = WriteTo(files, PlaquePath(p, "svg"), r)
                     /\ pc' = [pc EXCEPT ![p] = "plaque_png"]
                     /\ UNCHANGED exc
    /\ UNCHANGED << colorIndexAtEnd, invocations, args, i, call, folder >>

\* lines 150-161: the PNG at the artboard's size, or the converter raises
PlaquePng(p) ==
    /\ pc[p] = "plaque_png"
    /\ LET dims == calculate_plaque_dimensions(args[p].fontSize, args[p].label_line1, args[p].label_line2)
           artboard_width == (dims.plaque_width * 105) \div 100
           artboard_height == (dims.plaque_height * 105) \div 100
       IN  \/ /\ files' = WriteTo(files, PlaquePath(p, "png"),
                                  [kind |-> "png", output_width |-> artboard_width,
                                   output_height |-> artboard_height])
              /\ pc' = [pc EXCEPT ![p] = "done"]
              /\ UNCHANGED exc
           \/ /\ Raised(p, "ConverterError", "svg2png")
              /\ UNCHANGED files
    /\ UNCHANGED << colorIndexAtEnd, invocations, args, i, call, svg_content, folder >>

(* ---------------------------- specifications --------------------------- *)

WriteSvgStep(p) ==
    \/ CheckFolder(p)
    \/ MakeDirs(p)
    \/ CornerLayout(p)
    \/ GridLayout(p)
    \/ WriteFile(p)
    \/ Svg2Pdf(p)
    \/ CornerInkscape(p)
    \/ GridInkscape(p)

Next ==
    \E p \in Procs : \/ WriteSvgStep(p)
                     \/ PlaqueWrite(p)
                     \/ PlaquePng(p)

\* one call of one engine
Spec == Init /\ [][Next]_vars

NextRace == \E p \in Procs : WriteSvgStep(p)

\* two concurrent writeSvg calls on the same output folder
SpecRace == InitRace /\ [][NextRace]_vars

(* ---------------- a caller invoking the layout engines ----------------- *)

\* the number of layout invocations the caller makes
MaxInvocations == 2

\* the parameters the caller passes, and the variants it asks for
CallerCalls ==
    LET values == {w \in input_mapping : w.width = 139700}
        line2s == {None, Some(SistersKansas)}
    IN  { CallRecord("corner", "A", 1, 1, v, v.fontSize, Alabama, l2) :
            v \in values, l2 \in line2s }
        \cup UNION { { CallRecord("grid", "A", r, c, v, v.fontSize, Alabama, l2) :
                         v \in values, l2 \in line2s } :
                     r \in 1..MaxRows, c \in 1..MaxColumns }
        \cup { CallRecord("plaque", "A", 1, 1, NoValues, f, BrokenMountain, l2) :
                 f \in {24, 80}, l2 \in line2s }
CallerVariants == {0, 3}

NotCalled == CallRecord("", "", 0, 0, NoValues, 0, Empty, None)

InitCaller ==
    /\ args = [p \in Procs |-> NotCalled]
    /\ pc = [p \in Procs |-> IF p = 1 THEN "caller" ELSE "off"]
    /\ i = [p \in Procs |-> 0]
    /\ call = [p \in Procs |-> NoCall]
    /\ svg_content = [p \in Procs |-> NoDoc]
    /\ exc = [p \in Procs |-> NoExc]
    /\ folder \in BOOLEAN
    /\ files = {}
    /\ colorIndexAtEnd = 0
    /\ invocations = << >>

\* the caller's invocation with parameters a of variant v returned r, or raised
Invoked(p, a, v, r) ==
    /\ pc[p] = "caller"
    /\ Len(invocations) < MaxInvocations
    /\ args' = [args EXCEPT ![p] = a]
    /\ invocations' = Append(invocations, [input |-> << a, v >>, result |-> r])
    /\ svg_content' = [svg_content EXCEPT ![p] = IF r.kind = "raise" THEN @ ELSE r]
    /\ UNCHANGED << pc, i, call, exc, folder, files >>

\* create_svg_corners(...) as line 111-122 call it
InvokeCorner(p) ==
    \E a \in CallerCalls, v \in CallerVariants :
        /\ a.engine = "corner"
        /\ Invoked(p, a, v, corner_svg_content(v, a))
        /\ UNCHANGED colorIndexAtEnd

\* create_svg_corners_grid(...) as grid2 lines 105-116 call it
InvokeGrid(p) ==
    \E a \in CallerCalls, v \in CallerVariants :
        /\ a.engine = "grid"
        /\ Invoked(p, a, v, grid_svg_content(v, a))
        /\ colorIndexAtEnd' = ColorIndexAfter(grid_svg_content(v, a))

\* create_svg_plaque(fontSize, label_line1, label_line2)
InvokePlaque(p) ==
    \E a \in CallerCalls :
        /\ a.engine = "plaque"
        /\ Invoked(p, a, 0, create_svg_plaque(a.fontSize, a.label_line1, a.label_line2))
        /\ UNCHANGED colorIndexAtEnd

NextCaller ==
    \E p \in Procs : \/ InvokeCorner(p)
                     \/ InvokeGrid(p)
                     \/ InvokePlaque(p)

\* one caller invoking the layout engines one after the other
SpecCaller == InitCaller /\ [][NextCaller]_vars

(* ------------------------------- claims -------------------------------- *)

\* p has laid out variant i[p] and not yet finished exporting it: call[p] and
\* svg_content[p] are those of variant i[p]
InVariant(p) == pc[p] \in {"write", "svg2pdf", "inkscape"}

\* the text element of a corner document, and the (dy, text) pairs of its sub-runs
TextOf(doc) == doc.elements[2]
LinePairs(t) ==
    [k \in 1..Len(t.elements) |->
        IF t.elements[k].kind = "TSpan" THEN << t.elements[k].dy, t.elements[k].text >>
                                        ELSE << >>]

C2_TwoLineOffsets ==
    \A p \in Procs :
        (args[p].engine = "corner" /\ InVariant(p)) =>
            LET F == args[p].fontSize
                line1 == args[p].label_line1
                line2 == args[p].label_line2
                t == TextOf(svg_content[p])
            IN  IF line2.present /\ line2.text # << >>
                THEN /\ t.font_size = F - 2
                     /\ LinePairs(t) =
                            IF call[p].lower_corner
                            THEN << << 12, line2.text >>, << -12 * (F - 2), line1 >> >>
                            ELSE << << 12, line1 >>, << 12 * (F - 2), line2.text >> >>
                ELSE /\ t.font_size = F
                     /\ LinePairs(t)[1] = << 12, line1 >>

\* a two-line label in a lower corner at font size 28: line1 trails back by 1.2*26
C2_Witness ==
    \E p \in Procs :
        /\ args[p].engine = "corner" /\ pc[p] = "write" /\ i[p] = 2
        /\ args[p].fontSize = 28
        /\ args[p].label_line1 = Alabama /\ args[p].label_line2 = Some(SistersKansas)
        /\ LinePairs(TextOf(svg_content[p])) = << << 12, SistersKansas >>, << -312, Alabama >> >>

\* the parameters the spec calls invalid: a non-positive dimension or font size, an
\* empty line1, an inset fraction outside (0,1)
Invalid(a) ==
    IF a.engine = "plaque"
    THEN a.fontSize <= 0 \/ a.label_line1 = << >>
    ELSE \/ a.width <= 0 \/ a.height <= 0 \/ a.fontSize <= 0 \/ a.label_line1 = << >>
         \/ a.x_percent_from_edge <= 0 \/ a.x_percent_from_edge >= 100
         \/ a.y_percent_from_edge <= 0 \/ a.y_percent_from_edge >= 100

\* the labels of a grid document: its elements after the background rectangle
GridLabels(doc) == SubSeq(doc.elements, 2, Len(doc.elements))

\* C3: for a two-line label every cell of the grid engine carries the font size and
\* the (dy, text) sequence that create_svg_corners gives for the same font size,
\* isLowerCorner and label (stated for valid parameters).
C3_GridSameOffsetsAsCorner ==
    \A p \in Procs :
        (args[p].engine = "grid" /\ InVariant(p) /\ Truthy(args[p].label_line2) /\ ~Invalid(args[p])) =>
            LET a == args[p]
                c == TextOf(create_svg_corners(a.width, a.height, call[p].x, call[p].y, a.fontSize,
                                call[p].text_anchor, call[p].dominant_baseline,
                                call[p].lower_corner, a.label_line1, a.label_line2))
                labels == GridLabels(svg_content[p])
            IN  \A k \in 1..Len(labels) :
                    /\ labels[k].font_size = c.font_size
                    /\ LinePairs(labels[k]) = LinePairs(c)

\* what C4 compares of a one-label document
Geometry(doc) ==
    LET r == doc.elements[1]
        t == doc.elements[2]
    IN  [width |-> doc.width, height |-> doc.height,
         rect |-> << r.x, r.y, r.width, r.height >>,
         x |-> t.x, y |-> t.y, text_anchor |-> t.text_anchor,
         dominant_baseline |-> t.dominant_baseline, font_size |-> t.font_size,
         lines |-> LinePairs(t)]

\* C4: with rows = 1 and columns = 1 the grid engine's writeSvg produces, for each
\* variant, the geometry of the corner engine's writeSvg for that variant: canvas,
\* background rectangle, anchor, text anchor, baseline, font size and lines (stated
\* for valid parameters).
C4_GridOneByOneSameAsCorner ==
    \A p \in Procs :
        (/\ args[p].engine = "grid" /\ InVariant(p) /\ ~Invalid(args[p])
         /\ args[p].rows = 1 /\ args[p].columns = 1) =>
            Geometry(svg_content[p]) = Geometry(corner_svg_content(i[p], args[p]))

\* C5: for rows >= 1 and columns >= 1 create_svg_corners_grid completes, and its
\* document has the canvas cellWidth*columns by cellHeight*rows and exactly
\* rows*columns labels, one anchored at (x + cellWidth*column, y + cellHeight*row)
\* for each (row, column) (stated for valid parameters).
C5_GridCompletes ==
    \A p \in Procs :
        (/\ args[p].engine = "grid" /\ ~Invalid(args[p])
         /\ args[p].rows >= 1 /\ args[p].columns >= 1) =>
            /\ ~(pc[p] = "raised" /\ exc[p].at = "layout")
            /\ InVariant(p) =>
                  LET a == args[p]
                      labels == GridLabels(svg_content[p])
                  IN  /\ svg_content[p].width = a.width * a.columns
                      /\ svg_content[p].height = a.height * a.rows
                      /\ Len(labels) = a.rows * a.columns
                      /\ \A row \in 0..(a.rows - 1), column \in 0..(a.columns - 1) :
                            Cardinality({ k \in 1..Len(labels) :
                                            /\ labels[k].x = call[p].x + a.width * column
                                            /\ labels[k].y = call[p].y + a.height * row }) >= 1

\* the suffix of variant j in the engine of p
SuffixOf(p, j) == IF args[p].engine = "corner" THEN names[j + 1] ELSE grid_names[j + 1]

\* C6: when the export of one variant fails in writeSvg (the converter raises, or
\* inkscape cannot be started), the call still writes the files of every other
\* variant: once the call has ended, the SVG of each variant other than the failed
\* one exists (stated for valid parameters).
C6_ExportsIndependent ==
    \A p \in Procs :
        (pc[p] = "raised" /\ exc[p].at \in {"svg2pdf", "inkscape"} /\ ~Invalid(args[p])) =>
            \A j \in 0..3 :
                j # exc[p].variant => Exists(files, Path(args[p].file_name, SuffixOf(p, j), "svg"))

\* C7: of two concurrent writeSvg calls on a missing output folder neither fails
\* because the other created the folder first.
C7_ConcurrentCreationTolerated ==
    \A p \in Procs : ~(pc[p] = "raised" /\ exc[p].type = "FileExistsError")

\* C8 as claimed: a call with invalid parameters ends in an error and produces no
\* document.
C8_InvalidRejected ==
    \A p \in Procs :
        Invalid(args[p]) => (svg_content[p] = NoDoc /\ pc[p] # "done")

\* C8 as amended: no layout engine validates or clamps.  A call with invalid
\* parameters raises nothing in its layout step, except the grid engine's
\* IndexError for more than 3 cells (which it raises for any parameters), and the
\* document it returns is laid out from the values as given.
C8_NoValidation ==
    \A p \in Procs :
        Invalid(args[p]) =>
            LET a == args[p]
                doc == svg_content[p]
                edgeX == (Min(a.width, a.height) * a.x_percent_from_edge) \div 100
                edgeY == (Min(a.width, a.height) * a.y_percent_from_edge) \div 100
            IN  /\ (pc[p] = "raised" /\ exc[p].at = "layout") =>
                      (a.engine = "grid" /\ a.rows * a.columns > 3 /\ exc[p].type = "IndexError")
                /\ (InVariant(p) \/ pc[p] = "plaque_png") => doc.kind = "SVG"
                /\ (InVariant(p) /\ a.engine = "corner") =>
                      /\ doc.width = a.width /\ doc.height = a.height
                      /\ TextOf(doc).font_size = a.fontSize - (IF Truthy(a.label_line2) THEN 2 ELSE 0)
                      /\ TextOf(doc).x \in {edgeX, a.width - edgeX}
                      /\ TextOf(doc).y \in {edgeY, a.height - edgeY}
                /\ (InVariant(p) /\ a.engine = "grid") =>
                      /\ a.rows * a.columns <= 3
                      /\ doc.width = a.width * a.columns /\ doc.height = a.height * a.rows
                      /\ \A k \in 1..Len(GridLabels(doc)) : GridLabels(doc)[k].font_size = a.fontSize
                      /\ GridLabels(doc)[1].x \in {edgeX, a.width - edgeX}
                      /\ GridLabels(doc)[1].y \in {edgeY, a.height - edgeY}
                /\ (pc[p] = "plaque_png") =>
                      /\ doc.elements[6].font_size = a.fontSize
                      /\ 100 * doc.elements[1].height =
                            800 * (100 * a.fontSize * (IF a.label_line2.present THEN 2 ELSE 1)
                                   + 2 * (10 * a.fontSize))

\* documents laid out from a zero width, a negative height, a zero font size, an
\* empty line1 and an inset fraction of 1.5
C8_Witness ==
    \E p \in Procs :
        /\ args[p].engine = "corner" /\ pc[p] = "write"
        /\ args[p].width = 0 /\ args[p].height = -203200 /\ args[p].fontSize = 0
        /\ args[p].label_line1 = << >> /\ args[p].y_percent_from_edge = 150
        /\ svg_content[p].kind = "SVG" /\ svg_content[p].width = 0
        /\ svg_content[p].height = -203200

\* the plaque rectangle and text of a plaque document
PlaqueRect(doc) == doc.elements[1]
PlaqueText(doc) == doc.elements[6]

\* p has laid out its plaque
PlaqueLaid(p) == args[p].engine = "plaque" /\ pc[p] \in {"plaque_png", "done"}

\* C9: calculate_plaque_dimensions gives plaqueWidth = max(len(line1), len(line2
\* or "")) * F * 0.55 + 2 * (0.1 * F) and plaqueHeight = F * numLines + 2 * (0.1 * F),
\* numLines being 1 when line2 is absent (None) and 2 when a line2 is given; F = 80
\* with two 15-character lines gives 676 by 176.  (Plaque lengths are in 1/800.)
C9_PlaqueDimensions ==
    \A p \in Procs :
        PlaqueLaid(p) =>
            LET F == args[p].fontSize
                line1 == args[p].label_line1
                line2 == args[p].label_line2
                len2 == IF line2.present THEN Len(line2.text) ELSE 0
                longest == IF Len(line1) >= len2 THEN Len(line1) ELSE len2
                numLines == IF line2.present THEN 2 ELSE 1
                r == PlaqueRect(svg_content[p])
            IN  /\ 100 * r.width = 800 * (longest * F * 55 + 2 * (10 * F))
                /\ 100 * r.height = 800 * (100 * F * numLines + 2 * (10 * F))
                /\ (F = 80 /\ Len(line1) = 15 /\ len2 = 15) =>
                      (r.width = 676 * 800 /\ r.height = 176 * 800)

\* the plaque of "Broken Mountain" / "Sisters, Kansas" at font size 80
C9_Witness ==
    \E p \in Procs :
        /\ PlaqueLaid(p)
        /\ args[p].fontSize = 80
        /\ args[p].label_line1 = BrokenMountain /\ args[p].label_line2 = Some(SistersKansas)
        /\ PlaqueRect(svg_content[p]).width = 540800
        /\ PlaqueRect(svg_content[p]).height = 140800

\* C10: in create_svg_plaque the artboard is 1.05 times the plaque in both
\* dimensions and the plaque is centred in it: plaqueX = (artboardWidth -
\* plaqueWidth)/2, plaqueY = (artboardHeight - plaqueHeight)/2, left margin = right
\* margin, top margin = bottom margin, and the text's x is the artboard's centre.
C10_ArtboardCentred ==
    \A p \in Procs :
        PlaqueLaid(p) =>
            LET doc == svg_content[p]
                r == PlaqueRect(doc)
            IN  /\ 100 * doc.width = 105 * r.width
                /\ 100 * doc.height = 105 * r.height
                /\ 2 * r.x = doc.width - r.width
                /\ 2 * r.y = doc.height - r.height
                /\ r.x = doc.width - (r.x + r.width)
                /\ r.y = doc.height - (r.y + r.height)
                /\ 2 * PlaqueText(doc).x = doc.width
                /\ 2 * PlaqueText(doc).x = 2 * r.x + r.width

\* a plaque with positive margins: 676 by 176 in an artboard of 709.8 by 184.8
C10_Witness ==
    \E p \in Procs :
        /\ PlaqueLaid(p)
        /\ PlaqueRect(svg_content[p]).width = 676 * 800
        /\ svg_content[p].width = 567840
        /\ PlaqueRect(svg_content[p]).x = 13520
        /\ PlaqueRect(svg_content[p]).y = 3520

\* the letters that reach below the baseline
DescenderLetters == {"g", "j", "p", "q", "y"}

\* the positions of a line that hold such a letter
DescenderPositions(line) == { k \in DOMAIN line : line[k] \in DescenderLetters }

\* C11: the plaque text is centred on the plaque's mid-height, shifted by a
\* fraction k of the font size F and scaled by 0.85.  With two lines
\* y = plaqueY + 0.85 * (plaqueHeight / 2 - k * F), k = 0.45 when line2 has no
\* descender and 0.5 when it has one, whatever line1 holds; line1 is offset by
\* dy = 1.2 and line2 by dy = 1 * F.  With one line
\* y = plaqueY + 0.85 * (plaqueHeight / 2 + k * F), k = 0.05 when line1 has a
\* descender and 0.1 when it has none.  The font size of the text is F itself.
C11_PlaqueTextBaseline ==
    \A p \in Procs :
        PlaqueLaid(p) =>
            LET a == args[p]
                F == a.fontSize
                r == PlaqueRect(svg_content[p])
                t == PlaqueText(svg_content[p])
            IN  /\ t.font_size = F
                /\ IF Truthy(a.label_line2)
                   THEN LET k == IF DescenderPositions(a.label_line2.text) = {}
                                 THEN 45 * 8 ELSE 50 * 8
                        IN  /\ 200 * (t.y - r.y) = 85 * (r.height - 2 * k * F)
                            /\ LinePairs(t) = << << 12, a.label_line1 >>,
                                                 << 10 * F, a.label_line2.text >> >>
                   ELSE LET k == IF DescenderPositions(a.label_line1) # {}
                                 THEN 5 * 8 ELSE 10 * 8
                        IN  /\ 200 * (t.y - r.y) = 85 * (r.height + 2 * k * F)
                            /\ t.text = Some(a.label_line1)

\* write_svg_plaque(80, "Broken Mountain", "Goopy Pijen Rqual"): the second line
\* has descenders, so the text sits at 4.4 + 0.85 * (88 - 40) = 45.2
C11_Witness ==
    \E p \in Procs :
        /\ PlaqueLaid(p)
        /\ args[p].fontSize = 80
        /\ args[p].label_line1 = BrokenMountain
        /\ args[p].label_line2 = Some(GoopyPijenRqual)
        /\ PlaqueText(svg_content[p]).y = 452 * 80
        /\ PlaqueRect(svg_content[p]).y = 44 * 80

\* C12: has_descenders(line) is true exactly when the line holds one of the
\* lower-case letters g, j, p, q, y: it is false for the empty line and for a
\* line whose only such letters are the upper-case G, J, P, Q, Y.  The offset
\* of a one-line plaque text shows the answer the layout got for line1.
C12_HasDescenders ==
    \A p \in Procs :
        PlaqueLaid(p) =>
            LET a == args[p]
                r == PlaqueRect(svg_content[p])
                t == PlaqueText(svg_content[p])
            IN  /\ \A line \in {a.label_line1, OrEmpty(a.label_line2)} :
                    /\ has_descenders(line) <=> (DescenderPositions(line) # {})
                    /\ line = << >> => ~has_descenders(line)
                    /\ (\A k \in DOMAIN line : line[k] \in {"G", "J", "P", "Q", "Y"})
                            => ~has_descenders(line)
                /\ (~Truthy(a.label_line2) /\ a.fontSize > 0) =>
                        ((200 * (t.y - r.y) = 85 * (r.height + 2 * (5 * 8) * a.fontSize))
                            <=> (DescenderPositions(a.label_line1) # {}))

\* write_svg_plaque(24, "GYP", None): upper-case letters only, laid out with the
\* no-descender offset 0.1
C12_Witness ==
    \E p \in Procs :
        /\ PlaqueLaid(p)
        /\ args[p].fontSize = 24
        /\ args[p].label_line1 = << "G", "Y", "P" >>
        /\ args[p].label_line2 = None
        /\ ~has_descenders(args[p].label_line1)
        /\ 200 * (PlaqueText(svg_content[p]).y - PlaqueRect(svg_content[p]).y)
                = 85 * (PlaqueRect(svg_content[p]).height + 2 * (10 * 8) * 24)

\* Twice the centre of the arc an SVG renderer draws for the path
\* "M sx sy A r r 0 large sweep ex ey" when the end point lies r away from the
\* start on both axes (a quarter of the circle): the centre is the chord's
\* midpoint displaced along the chord's normal, to the side the two flags select
\* (the endpoint-to-centre conversion of the SVG implementation notes, where the
\* displacement is negative when large-arc-flag = sweep-flag).
ArcCentre2(a) ==
    LET sign == IF a.large = a.sweep THEN -1 ELSE 1
    IN  << a.sx + a.ex + sign * (a.sy - a.ey), a.sy + a.ey - sign * (a.sx - a.ex) >>

\* the four corners of the plaque rectangle r with the arc the document draws
\* there; inx and iny point from the corner into the rectangle
PlaqueCorners(doc) ==
    LET r == PlaqueRect(doc)
    IN  { [arc |-> doc.elements[2], x |-> r.x, y |-> r.y, inx |-> 1, iny |-> 1],
          [arc |-> doc.elements[3], x |-> r.x + r.width, y |-> r.y, inx |-> -1, iny |-> 1],
          [arc |-> doc.elements[4], x |-> r.x, y |-> r.y + r.height, inx |-> 1, iny |-> -1],
          [arc |-> doc.elements[5], x |-> r.x + r.width, y |-> r.y + r.height,
           inx |-> -1, iny |-> -1] }

\* the plaque is valid and wide enough for two arcs to fit on an edge
PlaqueHoldsArcs(p) ==
    /\ PlaqueLaid(p)
    /\ ~Invalid(args[p])
    /\ 5 * PlaqueRect(svg_content[p]).width > 2 * PlaqueRect(svg_content[p]).height

\* C13: each corner of the plaque has one arc of radius r = 0.20 * plaqueHeight
\* whose end points lie on the two edges that meet in the corner, r away from
\* it, and the arc drawn is the rounded corner: the quarter circle centred on
\* the point r inside both edges, which touches the edges tangentially and
\* bulges toward the corner.
C13_ArcsRoundTheCorners ==
    \A p \in Procs :
        PlaqueHoldsArcs(p) =>
            \A c \in PlaqueCorners(svg_content[p]) :
                LET a == c.arc
                    r == a.rx
                IN  /\ a.ry = r /\ 5 * r = PlaqueRect(svg_content[p]).height
                    /\ { << a.sx, a.sy >>, << a.ex, a.ey >> }
                            = { << c.x + c.inx * r, c.y >>, << c.x, c.y + c.iny * r >> }
                    /\ ArcCentre2(a) = << 2 * (c.x + c.inx * r), 2 * (c.y + c.iny * r) >>

Sgn(x) == IF x > 0 THEN 1 ELSE IF x < 0 THEN -1 ELSE 0

\* the sense in which a walk turns from the chord of arc a into the straight
\* edge that leads to the start of arc b: 1 with increasing angle (clockwise on
\* the screen, the sense of sweep-flag 1), -1 against it (sweep-flag 0)
TurnInto(a, b) ==
    Sgn(a.ex - a.sx) * Sgn(b.sy - a.ey) - Sgn(a.ey - a.sy) * Sgn(b.sx - a.ex)

\* C14: the four arcs carry the same sweep flag, the counter-clockwise one; in
\* the order top-left, top-right, bottom-right, bottom-left the end of each arc
\* and the start of the next lie on the same straight edge; and the walk along
\* the arcs and these edges turns in the sense in which each arc is swept.
C14_ArcsOneOrientedBoundary ==
    \A p \in Procs :
        PlaqueHoldsArcs(p) =>
            LET doc == svg_content[p]
                order == << doc.elements[2], doc.elements[3], doc.elements[5], doc.elements[4] >>
            IN  \A k \in 1..4 :
                    LET a == order[k]
                        b == order[(k % 4) + 1]
                    IN  /\ a.sweep = 0 /\ a.large = 0
                        /\ (a.ex = b.sx) # (a.ey = b.sy)
                        /\ TurnInto(a, b) = (IF a.sweep = 1 THEN 1 ELSE -1)

\* C17: for a label of one line (line2 absent or empty) the text run of
\* create_svg_corners owns exactly one line-offset entry, the sub-run
\* (dy = 1.2, line1) at the text's x, and no other element (stated for valid
\* parameters).
C17_SingleLineOneEntry ==
    \A p \in Procs :
        (args[p].engine = "corner" /\ InVariant(p) /\ ~Invalid(args[p])
            /\ ~Truthy(args[p].label_line2)) =>
            LET t == TextOf(svg_content[p])
            IN  t.elements = << TSpan(t.x, 12, args[p].label_line1) >>

\* C18: the number of lines calculate_plaque_dimensions sizes the plaque for
\* agrees with the layout create_svg_plaque draws, whether line2 is absent, empty
\* or non-empty: the plaque is two lines high (2 * F + 0.2 * F) exactly when the
\* text is drawn as two sub-runs, and one line high (F + 0.2 * F) exactly when it
\* is drawn as one line (stated for valid parameters).
C18_PlaqueLineCountAgrees ==
    \A p \in Procs :
        (PlaqueLaid(p) /\ ~Invalid(args[p])) =>
            LET F == args[p].fontSize
                r == PlaqueRect(svg_content[p])
                t == PlaqueText(svg_content[p])
            IN  /\ (r.height = F * (220 * 8)) <=> (Len(t.elements) = 2)
                /\ (r.height = F * (120 * 8)) <=> (Len(t.elements) = 0 /\ t.text.present)

\* the file of path `path`
ContentOf(fs, path) == (CHOOSE f \in fs : f.path = path).content

\* C16: a writeSvg call that has completed has written exactly four vector
\* files, named file_name + "_topLeft" / "_topRight" / "_bottomLeft" /
\* "_bottomRight" (+ "Grid" in the grid engine) + ".svg" and so all distinct;
\* the file with a given suffix holds the layout of that same variant (anchored
\* at the left or right, top or bottom inset, with the matching text anchor and
\* baseline); and every exported file has the name of its vector file with the
\* extension replaced by ".pdf" (the corner engine has exported all four).
C16_FourNamedFiles ==
    \A p \in Procs :
        (args[p].engine \in {"corner", "grid"} /\ pc[p] = "done") =>
            LET a == args[p]
                corner == a.engine = "corner"
                suffixes == IF corner
                            THEN << "_topLeft", "_topRight", "_bottomLeft", "_bottomRight" >>
                            ELSE << "_topLeftGrid", "_topRightGrid",
                                    "_bottomLeftGrid", "_bottomRightGrid" >>
                edgeX == (Min(a.width, a.height) * a.x_percent_from_edge) \div 100
                edgeY == (Min(a.width, a.height) * a.y_percent_from_edge) \div 100
                mine == { f \in files : f.path[1] = a.file_name }
            IN  /\ { f.path : f \in { g \in mine : g.path[3] = "svg" } }
                        = { << a.file_name, suffixes[j], "svg" >> : j \in 1..4 }
                /\ Cardinality({ f \in mine : f.path[3] = "svg" }) = 4
                /\ \A j \in 1..4 :
                        LET t == TextOf(ContentOf(files, << a.file_name, suffixes[j], "svg" >>))
                            left == j \in {1, 3}
                            top == j \in {1, 2}
                        IN  /\ t.x = IF left THEN edgeX ELSE a.width - edgeX
                            /\ t.y = IF top THEN edgeY ELSE a.height - edgeY
                            /\ t.text_anchor = IF left THEN "start" ELSE "end"
                            /\ t.dominant_baseline =
                                    IF corner THEN (IF top THEN "hanging" ELSE "central")
                                    ELSE (IF top THEN "text-top" ELSE "text-bottom")
                /\ \A f \in mine :
                        f.path[3] = "pdf" => \E j \in 1..4 : f.path[2] = suffixes[j]
                /\ corner => \A j \in 1..4 : Exists(files, << a.file_name, suffixes[j], "pdf" >>)

\* a completed corner call on a portrait artboard: the four files differ, the one
\* named _topRight is anchored at the right inset, the one named _bottomLeft at
\* the bottom inset
C16_Witness ==
    \E p \in Procs :
        /\ args[p].engine = "corner" /\ pc[p] = "done"
        /\ args[p].width = 139700 /\ args[p].height = 203200
        /\ args[p].x_percent_from_edge = 12 /\ args[p].y_percent_from_edge = 10
        /\ Cardinality({ f \in files : f.path[3] = "svg" }) = 4
        /\ Cardinality({ f \in files : f.path[3] = "pdf" }) = 4
        /\ TextOf(ContentOf(files, << args[p].file_name, "_topRight", "svg" >>)).x
                = 139700 - 16764
        /\ TextOf(ContentOf(files, << args[p].file_name, "_bottomLeft", "svg" >>)).y
                = 203200 - 13970

\* the corner call of p has a file of variant j (1..4) with extension ext
CornerFile(p, j, ext) ==
    Exists(files, << args[p].file_name,
                     << "_topLeft", "_topRight", "_bottomLeft", "_bottomRight" >>[j], ext >>)

\* where the corner call of p stands: variants 1..i[p] are finished, variant
\* i[p] + 1 is in work, the later ones are untouched
CornerPipelineOrdered(p) ==
    LET now == i[p] + 1
    IN  /\ i[p] \in 0..4
        /\ (pc[p] = "done") <=> (i[p] = 4)
        /\ (\E f \in files : f.path[1] = args[p].file_name) => folder
        /\ pc[p] \in {"layout", "write", "svg2pdf", "inkscape"} => folder
        /\ \A j \in 1..4 :
            /\ j < now => (CornerFile(p, j, "svg") /\ CornerFile(p, j, "pdf"))
            /\ j > now => (~CornerFile(p, j, "svg") /\ ~CornerFile(p, j, "pdf"))
            /\ (j = now /\ CornerFile(p, j, "svg")) => pc[p] \in {"svg2pdf", "inkscape", "raised"}
            /\ (j = now /\ CornerFile(p, j, "pdf")) => pc[p] \in {"inkscape", "raised"}
            /\ (j = now /\ pc[p] = "svg2pdf") => CornerFile(p, j, "svg")
            /\ (j = now /\ pc[p] = "inkscape") =>
                    (CornerFile(p, j, "svg") /\ CornerFile(p, j, "pdf"))

\* C19: the export pipeline of the corner engine's writeSvg is strictly
\* ordered.  The output folder exists before any file is written; the variants
\* are worked in the order TopLeft, TopRight, BottomLeft, BottomRight, one after
\* the other; within a variant the SVG file is written before the conversion
\* reads it and the PDF exists before the text-to-path pass is run on it; and no
\* file of a later variant exists before the SVG and the PDF of every earlier
\* variant do.
C19_PipelineOrdered ==
    /\ [](\A p \in Procs : (args[p].engine = "corner" /\ pc[p] # "off")
                                => CornerPipelineOrdered(p))
    /\ [][\A p \in Procs : args[p].engine = "corner" =>
                /\ i'[p] \in {i[p], i[p] + 1}
                /\ (pc[p] = "write" /\ pc'[p] # "write") => pc'[p] = "svg2pdf"
                /\ (pc[p] = "svg2pdf" /\ pc'[p] # "svg2pdf") => pc'[p] \in {"inkscape", "raised"}
                /\ (i'[p] # i[p]) => pc[p] = "inkscape"]_vars

\* the text-to-path pass of the last variant is about to run: the four SVG and
\* the four PDF files are there
C19_Witness ==
    \E p \in Procs :
        /\ args[p].engine = "corner" /\ pc[p] = "inkscape" /\ i[p] = 3
        /\ \A j \in 1..4 : CornerFile(p, j, "svg") /\ CornerFile(p, j, "pdf")
        /\ folder

====
